---- MODULE Spec2Model ----
(***************************************************************************)
(* Order creation across the orders service and the products service.      *)
(*                                                                         *)
(* The orders service (POST /orders) takes a pooled connection, validates  *)
(* the body, opens a transaction, inserts the order header, then for each  *)
(* item inserts the order_items row and PATCHes the products service, and  *)
(* finally commits.  The products service (PATCH /products/:id/stock)      *)
(* runs one UPDATE statement.  Both stores are PostgreSQL tables: rows     *)
(* written inside a transaction are seen by other connections only after   *)
(* COMMIT (READ COMMITTED), and a single UPDATE is atomic.                 *)
(*                                                                         *)
(* Money: a JavaScript number is modelled in mills (1/1000 of a currency   *)
(* unit), a DECIMAL(10,2) column value in cents.  order_items.id (a        *)
(* SERIAL no handler reads) is not modelled.                               *)
(***************************************************************************)
EXTENDS Integers, Sequences, FiniteSets, TLC

\* ------------------------------------------------------------------ bounds
NumReq == 2        \* POST /orders requests
MaxItems == 2      \* longest item sequence of a request
NumCalls == 3      \* PATCH /products/:id/stock requests made by other clients
NumReplicas == 3   \* replicas of the products service
NumPlace == 3      \* clicks on Place Order in the browser
MaxAdds == 3       \* clicks on Add to Cart while the cart is not emptied
MaxNewProducts == 1  \* POST /products requests

Reqs == 1..NumReq
Calls == 1..NumCalls
Replicas == 1..NumReplicas
Places == 1..NumPlace

\* ------------------------------------------------- products-service seed
LaptopStock == 50
PhoneStock == 100
LaptopPrice == 129999
PhonePrice == 89999

\* initDB seeds six rows.
SeedCount == 6

\* The rows initDB inserts, in the order of its INSERT: price in cents.
SeedProducts ==
    [i \in 1..SeedCount |->
        CASE i = 1 -> [name |-> "Laptop", price |-> LaptopPrice, stock |-> LaptopStock]
          [] i = 2 -> [name |-> "Smartphone", price |-> PhonePrice, stock |-> PhoneStock]
          [] i = 3 -> [name |-> "Headphones", price |-> 29999, stock |-> 75]
          [] i = 4 -> [name |-> "Smartwatch", price |-> 39999, stock |-> 60]
          [] i = 5 -> [name |-> "Tablet", price |-> 59999, stock |-> 40]
          [] OTHER -> [name |-> "Camera", price |-> 79999, stock |-> 30]]
VarcharLimit == 50

\* A product id no row has.
NoSuchProduct == SeedCount + 1

\* ---------------------------------------------------------------- inputs
\* req.body without an items field.
Missing == [has_items |-> FALSE, items |-> <<>>]

\* The line items a request may carry: price in mills.
ItemChoices ==
    { [product_id |-> 1, quantity |-> 2, price |-> 1299990],
      [product_id |-> NoSuchProduct, quantity |-> 1, price |-> 899990],
      [product_id |-> 2, quantity |-> -1, price |-> -10] }

RECURSIVE SeqsUpTo(_)
SeqsUpTo(n) ==
    IF n = 0 THEN { <<>> }
    ELSE LET shorter == SeqsUpTo(n - 1)
         IN  shorter \cup { Append(s, i) : s \in {t \in shorter : Len(t) = n - 1}, i \in ItemChoices }

Bodies == { [has_items |-> TRUE, items |-> s] : s \in SeqsUpTo(MaxItems) } \cup {Missing}

\* Quantities another client may PATCH a stock with.
CallQuantities == {1, 3, LaptopStock + 1}

\* -------------------------------------------------------------- numbers
\* The error of the double-precision sum, in mills: far below one mill for
\* amounts a DECIMAL(10,2) holds; one mill bounds it.
FloatErr == {-1, 0, 1}

\* PostgreSQL's cast of a number to DECIMAL(10,2): mills to cents, rounding
\* half away from zero.
ToDecimal2Trunc(x) == IF x >= 0 THEN x \div 10 ELSE -((-x) \div 10)
ToDecimal2(x) == IF x >= 0 THEN (x + 5) \div 10 ELSE -((-x + 5) \div 10)

\* items.reduce((sum, item) => sum + (item.price * item.quantity), 0), exactly.
RECURSIVE Total(_)
Total(items) ==
    IF items = <<>> THEN 0
    ELSE Total(SubSeq(items, 1, Len(items) - 1))
         + items[Len(items)].price * items[Len(items)].quantity

\* ---------------------------------------------------------------- state
VARIABLES
    products,     \* products table: id -> row
    orders,       \* committed rows of the orders table, in commit order
    order_items,  \* committed rows of the order_items table, in insertion order
    order_seq,    \* orders_id_seq: the last id handed out
    pc,           \* per request: where its handler is
    body,         \* per request: req.body.items
    idx,          \* per request: position of the for loop
    tx,           \* per request: its connection's open transaction
    res,          \* per request: the response sent, or NoResponse
    fault,        \* per request: the store operation that threw first
    adjLog,       \* per request: the stock PATCH calls issued so far
    placed,       \* order id -> the items of the request whose COMMIT succeeded
    call,         \* per direct PATCH /products/:id/stock request
    checked_out,  \* the pool's clients handed out and not yet released
    now,          \* the database clock
    prior,        \* per request: the orders already answered 201 when it arrived
    client,       \* another client's request to the orders or products service
    product_seq,  \* products_id_seq: the last id handed out
    schema,       \* whether the products table exists
    replica,      \* per replica of the products service: where its initDB is
    ui,           \* the browser's React state: cart, orders, error
    placing,      \* per click on Place Order: where that placeOrder call is
    added         \* product id -> addToCart calls since the cart was last emptied

vars == <<products, orders, order_items, order_seq, pc, body, idx, tx, res, fault, adjLog, placed,
          call, checked_out, now, prior, client, product_seq, schema, replica,
          ui, placing, added>>

\* The browser's state: only addToCart and placeOrder touch it.
uiVars == <<ui, placing, added>>

\* The products service's startup state: only initDB and POST /products
\* touch it.
bootVars == <<product_seq, schema, replica>>

\* What no step of POST /orders or of a direct stock PATCH touches but the
\* ones that say so.
envVars == <<checked_out, now, prior, client, bootVars, uiVars>>

storeVars == <<orders, order_items, order_seq, placed>>

NoResponse == [status |-> 0]
\* A connection with no transaction: begun and started are set by BEGIN,
\* ended_by by the COMMIT or ROLLBACK that succeeds, rollback_threw by a
\* ROLLBACK that throws.
NoTx == [open |-> FALSE, begun |-> FALSE, started |-> 0, ended_by |-> "none",
         rollback_threw |-> FALSE, order |-> [id |-> 0], items |-> <<>>]
NoFault == "none"

\* The other client before its request: op is the endpoint it calls, id the
\* path parameter, arg the status it sends, status / order / items / product
\* the response.
NoOrder == [id |-> 0, total_amount |-> 0, status |-> "", created_at |-> 0]
NoProduct == [name |-> "", price |-> 0, stock |-> 0]
NoId == [int4 |-> TRUE, value |-> 0]
NoClient == [op |-> "none", pc |-> "idle", id |-> NoId, arg |-> "", status |-> 0,
             order |-> NoOrder, items |-> <<>>, product |-> NoProduct]

\* The products the browser shows, each with an Add to Cart button.
ShownProducts == {1, 2}

\* useState(null) of error.
NoError == "null"

\* A click on Place Order not made yet: pc is where the call is, posts the
\* number of fetches it has made, body the items it sent, orders the order
\* list its closure holds, outcome how it ended.
NotPlacing ==
    [pc |-> "idle", posts |-> 0, body |-> <<>>, orders |-> <<>>, outcome |-> "none",
     order |-> NoOrder]

\* No request has arrived yet, the Order Store is empty, and the browser has
\* loaded the page.
NoRequests ==
    /\ orders = <<>>
    /\ order_items = <<>>
    /\ order_seq = 0
    /\ pc = [p \in Reqs |-> "idle"]
    /\ body = [p \in Reqs |-> Missing]
    /\ idx = [p \in Reqs |-> 0]
    /\ tx = [p \in Reqs |-> NoTx]
    /\ res = [p \in Reqs |-> NoResponse]
    /\ fault = [p \in Reqs |-> NoFault]
    /\ adjLog = [p \in Reqs |-> <<>>]
    /\ placed = <<>>
    /\ call = [c \in Calls |-> [state |-> "idle", id |-> 0, quantity |-> 0, status |-> 0,
                              stock |-> 0]]
    /\ checked_out = 0
    /\ now = 0
    /\ prior = [p \in Reqs |-> {}]
    /\ client = NoClient
    /\ ui = [cart |-> <<>>, orders |-> <<>>, error |-> NoError]
    /\ placing = [c \in Places |-> NotPlacing]
    /\ added = [i \in ShownProducts |-> 0]

\* Both services are up: every replica has run initDB, the first of them on
\* an empty database.
Init ==
    /\ products = SeedProducts
    /\ product_seq = SeedCount
    /\ schema = TRUE
    /\ replica = [r \in Replicas |-> [pc |-> "done", count |-> 0]]
    /\ NoRequests

\* The database is empty and every replica is about to run initDB.
InitBoot ==
    /\ products = <<>>
    /\ product_seq = 0
    /\ schema = FALSE
    /\ replica = [r \in Replicas |-> [pc |-> "create_table", count |-> 0]]
    /\ NoRequests

\* ------------------------------------------------------ products service
\* UPDATE products SET stock = stock - $1 WHERE id = $2: the new stock, which
\* the statement computes from the row it holds locked.
\* NewStock with a floor: the stock never goes below zero.
NewStockFloored(id, q) == IF products[id].stock - q < 0 THEN 0 ELSE products[id].stock - q

NewStockStale(id, q) == SeedProducts[id].stock - q
NewStock(id, q) == products[id].stock - q


\* PatchedProducts without the WHERE: every row is decremented.
PatchedProductsNoWhere(id, q) ==
    IF id \in DOMAIN products
    THEN [i \in DOMAIN products |-> [products[i] EXCEPT !.stock = @ - q]]
    ELSE products

\* The table after PATCH /products/:id/stock: no row matches an unknown id.
PatchedProducts(id, q) ==
    IF id \in DOMAIN products
    THEN [products EXCEPT ![id].stock = NewStock(id, q)]
    ELSE products

\* The status of its response: 404 when RETURNING * gave no row.
PatchStatus(id) == IF id \in DOMAIN products THEN 200 ELSE 404

\* The stock of the row RETURNING * gives: the row after the UPDATE.
ReturnedStock(id, q) == IF id \in DOMAIN products THEN PatchedProducts(id, q)[id].stock ELSE 0

\* Another client sends PATCH /products/:id/stock {quantity}.
SendCall(c) ==
    /\ call[c].state = "idle"
    /\ \E id \in {1, NoSuchProduct}, q \in CallQuantities :
          call' = [call EXCEPT ![c] = [state |-> "sent", id |-> id, quantity |-> q,
                                       status |-> 0, stock |-> 0]]
    /\ UNCHANGED <<products, storeVars, pc, body, idx, tx, res, fault, adjLog, envVars>>

\* The products service handles it: one UPDATE, then the response.
ApplyCall(c) ==
    /\ call[c].state = "sent"
    /\ products' = PatchedProducts(call[c].id, call[c].quantity)
    /\ call' = [call EXCEPT ![c].state = "done", ![c].status = PatchStatus(call[c].id),
                             ![c].stock = ReturnedStock(call[c].id, call[c].quantity)]
    /\ UNCHANGED <<storeVars, pc, body, idx, tx, res, fault, adjLog, envVars>>

\* ------------------------------------------------ products service start
\* initDB, first query: CREATE TABLE IF NOT EXISTS products.
CreateTable(r) ==
    /\ replica[r].pc = "create_table"
    /\ schema' = TRUE
    /\ replica' = [replica EXCEPT ![r].pc = "count"]
    /\ UNCHANGED <<products, product_seq, storeVars, pc, body, idx, tx, res, fault, adjLog,
                   call, checked_out, now, prior, client, uiVars>>

\* The catalog after INSERT INTO products .. VALUES (six rows): one
\* statement, ids from the sequence.
Seeded ==
    [i \in DOMAIN products \cup ((product_seq + 1)..(product_seq + SeedCount)) |->
        IF i \in DOMAIN products THEN products[i] ELSE SeedProducts[i - product_seq]]

\* CountProducts without the test of the count: the seed is always inserted.
CountProductsAlwaysSeeds(r) ==
    /\ replica[r].pc = "count"
    /\ replica' = [replica EXCEPT ![r].count = Cardinality(DOMAIN products), ![r].pc = "seed"]
    /\ UNCHANGED <<products, product_seq, schema, storeVars, pc, body, idx, tx, res, fault,
                   adjLog, call, checked_out, now, prior, client, uiVars>>

\* initDB, second query: SELECT COUNT(*) FROM products, and the test of it.
CountProducts(r) ==
    /\ replica[r].pc = "count"
    /\ replica' = [replica EXCEPT ![r].count = Cardinality(DOMAIN products),
                                  ![r].pc = IF Cardinality(DOMAIN products) = 0
                                            THEN "seed" ELSE "done"]
    /\ UNCHANGED <<products, product_seq, schema, storeVars, pc, body, idx, tx, res, fault,
                   adjLog, call, checked_out, now, prior, client, uiVars>>

\* initDB, third query: the seed rows.
Seed(r) ==
    /\ replica[r].pc = "seed"
    /\ products' = Seeded
    /\ product_seq' = product_seq + SeedCount
    /\ replica' = [replica EXCEPT ![r].pc = "done"]
    /\ UNCHANGED <<schema, storeVars, pc, body, idx, tx, res, fault, adjLog,
                   call, checked_out, now, prior, client, uiVars>>

\* A query of initDB throws: the catch logs it and initDB returns.
InitDBError(r) ==
    /\ replica[r].pc \in {"create_table", "count", "seed"}
    /\ replica' = [replica EXCEPT ![r].pc = "done"]
    /\ UNCHANGED <<products, product_seq, schema, storeVars, pc, body, idx, tx, res, fault,
                   adjLog, call, checked_out, now, prior, client, uiVars>>

\* The replica is started again: app.listen runs initDB once more.
Restart(r) ==
    /\ replica[r].pc = "done"
    /\ replica' = [replica EXCEPT ![r] = [pc |-> "create_table", count |-> 0]]
    /\ UNCHANGED <<products, product_seq, schema, storeVars, pc, body, idx, tx, res, fault,
                   adjLog, call, checked_out, now, prior, client, uiVars>>

InitDB(r) ==
    CreateTable(r) \/ CountProducts(r) \/ Seed(r) \/ InitDBError(r) \/ Restart(r)

\* -------------------------------------------------------- orders service
\* if (!items || items.length === 0)
IsEmptyRequestNoLength(b) == ~b.has_items
IsEmptyRequest(b) == ~b.has_items \/ Len(b.items) = 0

\* const { items } = req.body, once validated.
Items(p) == body[p].items

\* The orders whose POST /orders has returned with 201.
Answered == { res[o].order.id : o \in { r \in Reqs : pc[r] = "done" /\ res[r].status = 201 } }

\* Requests are numbered in the order they arrive.
Arrives(p) == pc[p] = "idle" /\ \A o \in Reqs : o < p => pc[o] # "idle"

\* A request arrives with its body: const client = await pool.connect()
Connect(p) ==
    /\ Arrives(p)
    /\ \E b \in Bodies : body' = [body EXCEPT ![p] = b]
    /\ pc' = [pc EXCEPT ![p] = "validate"]
    /\ checked_out' = checked_out + 1
    /\ now' = now + 1
    /\ prior' = [prior EXCEPT ![p] = Answered]
    /\ UNCHANGED <<products, storeVars, idx, tx, res, fault, adjLog, call, client, bootVars, uiVars>>

\* pool.connect() rejects: it is awaited outside the try, so the handler
\* ends with neither a response nor a release.
ConnectFail(p) ==
    /\ Arrives(p)
    /\ pc' = [pc EXCEPT ![p] = "done"]
    /\ now' = now + 1
    /\ UNCHANGED <<products, storeVars, body, idx, tx, res, fault, adjLog, call,
                   checked_out, prior, client, bootVars, uiVars>>

\* The empty-body check: 400 and on to finally, or on to BEGIN.
Validate(p) ==
    /\ pc[p] = "validate"
    /\ IF IsEmptyRequest(body[p])
       THEN /\ res' = [res EXCEPT ![p] = [status |-> 400]]
            /\ pc' = [pc EXCEPT ![p] = "release"]
       ELSE /\ pc' = [pc EXCEPT ![p] = "begin"]
            /\ UNCHANGED res
    /\ UNCHANGED <<products, storeVars, body, idx, tx, fault, adjLog, call, envVars>>

\* await client.query('BEGIN')
Begin(p) ==
    /\ pc[p] = "begin"
    /\ tx' = [tx EXCEPT ![p].open = TRUE, ![p].begun = TRUE, ![p].started = now]
    /\ pc' = [pc EXCEPT ![p] = "insert_order"]
    /\ UNCHANGED <<products, storeVars, body, idx, res, fault, adjLog, call, envVars>>

\* A client.query inside the try throws (BEGIN, an INSERT or COMMIT): control
\* passes to the catch block.  Nothing the transaction wrote is committed.
QueryFail(p) ==
    /\ pc[p] \in {"begin", "insert_order", "insert_item", "commit"}
    /\ fault' = [fault EXCEPT ![p] = pc[p]]
    /\ pc' = [pc EXCEPT ![p] = "rollback"]
    /\ UNCHANGED <<products, storeVars, body, idx, tx, res, adjLog, call, envVars>>



\* InsertOrder on the pool instead of the transaction's client: the header is
\* committed at once.
InsertOrderAutocommit(p) ==
    /\ pc[p] = "insert_order"
    /\ order_seq' = order_seq + 1
    /\ \E e \in FloatErr :
         /\ tx' = [tx EXCEPT ![p].order =
                      [id |-> order_seq + 1,
                       total_amount |-> ToDecimal2(Total(Items(p)) + e),
                       status |-> "pending",
                       created_at |-> tx[p].started]]
         /\ orders' = Append(orders, tx'[p].order)
    /\ placed' = placed @@ ((order_seq + 1) :> Items(p))
    /\ idx' = [idx EXCEPT ![p] = 1]
    /\ pc' = [pc EXCEPT ![p] = IF Len(Items(p)) = 0 THEN "commit" ELSE "insert_item"]
    /\ UNCHANGED <<products, order_items, body, res, fault, adjLog, call, envVars>>

\* InsertOrder with the id taken from the number of visible orders instead
\* of the sequence.
InsertOrderIdFromCount(p) ==
    /\ pc[p] = "insert_order"
    /\ order_seq' = order_seq + 1
    /\ \E e \in FloatErr :
         tx' = [tx EXCEPT ![p].order =
                   [id |-> Len(orders) + 1,
                    total_amount |-> ToDecimal2(Total(Items(p)) + e),
                    status |-> "pending",
                    created_at |-> tx[p].started]]
    /\ idx' = [idx EXCEPT ![p] = 1]
    /\ pc' = [pc EXCEPT ![p] = IF Len(Items(p)) = 0 THEN "commit" ELSE "insert_item"]
    /\ UNCHANGED <<products, orders, order_items, placed, body, res, fault, adjLog, call, envVars>>

\* InsertOrder with the header written as shipped.
InsertOrderShipped(p) ==
    /\ pc[p] = "insert_order"
    /\ order_seq' = order_seq + 1
    /\ \E e \in FloatErr :
         tx' = [tx EXCEPT ![p].order =
                   [id |-> order_seq + 1,
                    total_amount |-> ToDecimal2(Total(Items(p)) + e),
                    status |-> "shipped",
                    created_at |-> tx[p].started]]
    /\ idx' = [idx EXCEPT ![p] = 1]
    /\ pc' = [pc EXCEPT ![p] = IF Len(Items(p)) = 0 THEN "commit" ELSE "insert_item"]
    /\ UNCHANGED <<products, orders, order_items, placed, body, res, fault, adjLog, call, envVars>>

\* const total = items.reduce(...); INSERT INTO orders (total_amount, status)
\* VALUES ($1, 'pending') RETURNING *.  The row is the transaction's own until
\* COMMIT; the sequence value is taken for good.
InsertOrder(p) ==
    /\ pc[p] = "insert_order"
    /\ \E e \in FloatErr :
          tx' = [tx EXCEPT ![p].order =
                    [id |-> order_seq + 1,
                     total_amount |-> ToDecimal2(Total(Items(p)) + e),
                     status |-> "pending",
                     created_at |-> tx[p].started]]
    /\ order_seq' = order_seq + 1
    /\ idx' = [idx EXCEPT ![p] = 1]
    /\ pc' = [pc EXCEPT ![p] = IF Len(Items(p)) >= 1 THEN "insert_item" ELSE "commit"]
    /\ UNCHANGED <<products, orders, order_items, placed, body, res, fault, adjLog, call, envVars>>

\* The row INSERT INTO order_items writes for the item the loop is at.
ItemRow(p) ==
    [order_id |-> tx[p].order.id,
     product_id |-> Items(p)[idx[p]].product_id,
     quantity |-> Items(p)[idx[p]].quantity,
     price |-> ToDecimal2(Items(p)[idx[p]].price)]

\* The same INSERT issued on the pool instead of the transaction's client.
InsertItemAutocommit(p) ==
    /\ pc[p] = "insert_item"
    /\ order_items' = Append(order_items, ItemRow(p))
    /\ pc' = [pc EXCEPT ![p] = "adjust"]
    /\ UNCHANGED <<products, orders, order_seq, placed, body, idx, tx, res, fault, adjLog, call, envVars>>

\* await client.query('INSERT INTO order_items ...') for items[idx].
InsertItem(p) ==
    /\ pc[p] = "insert_item"
    /\ tx' = [tx EXCEPT ![p].items = Append(@, ItemRow(p))]
    /\ pc' = [pc EXCEPT ![p] = "adjust"]
    /\ UNCHANGED <<products, storeVars, body, idx, res, fault, adjLog, call, envVars>>

\* Whether the order row of request p is committed.
Committed(p) == \E k \in 1..Len(orders) : orders[k].id = tx[p].order.id

\* The record of one axios.patch call: what was sent, how it ended, and
\* whether the order's transaction was still open when it was issued.
LogEntry(p, outcome) ==
    [product_id |-> Items(p)[idx[p]].product_id,
     quantity |-> Items(p)[idx[p]].quantity,
     outcome |-> outcome,
     in_tx |-> tx[p].open]

\* How axios sees the answer: a 2xx resolves, any other status throws.
Outcome(status) == IF status = 200 THEN "ok" ELSE "not_found"

\* Where the loop goes after the try/catch around axios.patch.
AfterAdjust(p) == IF idx[p] < Len(Items(p)) THEN "insert_item" ELSE "commit"


\* AdjustReplied with the reply's status checked: a 404 fails the order.
AdjustRepliedAborts(p) ==
    /\ pc[p] = "adjust"
    /\ products' = PatchedProducts(Items(p)[idx[p]].product_id, Items(p)[idx[p]].quantity)
    /\ adjLog' = [adjLog EXCEPT ![p] =
                    Append(@, LogEntry(p, Outcome(PatchStatus(Items(p)[idx[p]].product_id))))]
    /\ idx' = [idx EXCEPT ![p] = @ + 1]
    /\ pc' = [pc EXCEPT ![p] =
                IF PatchStatus(Items(p)[idx[p]].product_id) = 404 THEN "rollback"
                ELSE AfterAdjust(p)]
    /\ UNCHANGED <<storeVars, body, tx, res, fault, call, envVars>>

\* axios.patch is answered: 200 with the product, or 404, which axios throws
\* and the inner catch logs.
AdjustReplied(p) ==
    /\ pc[p] = "adjust"
    /\ products' = PatchedProducts(Items(p)[idx[p]].product_id, Items(p)[idx[p]].quantity)
    /\ adjLog' = [adjLog EXCEPT ![p] =
                    Append(@, LogEntry(p, Outcome(PatchStatus(Items(p)[idx[p]].product_id))))]
    /\ idx' = [idx EXCEPT ![p] = @ + 1]
    /\ pc' = [pc EXCEPT ![p] = AfterAdjust(p)]
    /\ UNCHANGED <<storeVars, body, tx, res, fault, call, envVars>>

\* The same with the inner try/catch missing: a 404 reaches the outer catch.
AdjustErrorPropagates(p) ==
    /\ pc[p] = "adjust"
    /\ adjLog' = [adjLog EXCEPT ![p] = Append(@, LogEntry(p, "error"))]
    /\ pc' = [pc EXCEPT ![p] = "rollback"]
    /\ UNCHANGED <<products, storeVars, body, idx, tx, res, fault, call, envVars>>


\* AdjustError with the failed PATCH tried again instead of moving on.
AdjustErrorRetries(p) ==
    /\ pc[p] = "adjust"
    /\ adjLog' = [adjLog EXCEPT ![p] = Append(@, LogEntry(p, "error"))]
    /\ UNCHANGED <<pc, idx, products, storeVars, body, tx, res, fault, call, envVars>>

\* axios.patch throws for the network (the request did not reach the products
\* service) or for a 500 (its UPDATE failed): the inner catch logs it.
AdjustError(p) ==
    /\ pc[p] = "adjust"
    /\ adjLog' = [adjLog EXCEPT ![p] = Append(@, LogEntry(p, "error"))]
    /\ idx' = [idx EXCEPT ![p] = @ + 1]
    /\ pc' = [pc EXCEPT ![p] = AfterAdjust(p)]
    /\ UNCHANGED <<products, storeVars, body, tx, res, fault, call, envVars>>

\* axios.patch is never answered: no timeout is set, the await never ends.
AdjustHang(p) ==
    /\ pc[p] = "adjust"
    /\ adjLog' = [adjLog EXCEPT ![p] = Append(@, LogEntry(p, "hung"))]
    /\ pc' = [pc EXCEPT ![p] = "hung"]
    /\ UNCHANGED <<products, storeVars, body, idx, tx, res, fault, call, envVars>>


\* Commit answering 201 without the COMMIT having made the rows visible.
CommitNotDurable(p) ==
    /\ pc[p] = "commit"
    /\ tx' = [tx EXCEPT ![p].open = FALSE, ![p].ended_by = "COMMIT"]
    /\ res' = [res EXCEPT ![p] = [status |-> 201, order |-> tx[p].order]]
    /\ pc' = [pc EXCEPT ![p] = "release"]
    /\ UNCHANGED <<products, storeVars, body, idx, fault, adjLog, call, envVars>>

\* await client.query('COMMIT'); res.status(201).json(order)
Commit(p) ==
    /\ pc[p] = "commit"
    /\ orders' = Append(orders, tx[p].order)
    /\ order_items' = order_items \o tx[p].items
    /\ tx' = [tx EXCEPT ![p].open = FALSE, ![p].ended_by = "COMMIT"]
    /\ res' = [res EXCEPT ![p] = [status |-> 201, order |-> tx[p].order]]
    /\ pc' = [pc EXCEPT ![p] = "release"]
    /\ placed' = placed @@ (tx[p].order.id :> Items(p))
    /\ UNCHANGED <<products, order_seq, body, idx, fault, adjLog, call, envVars>>

\* catch: await client.query('ROLLBACK'); res.status(500)
Rollback(p) ==
    /\ pc[p] = "rollback"
    /\ tx' = [tx EXCEPT ![p].open = FALSE, ![p].ended_by = "ROLLBACK"]
    /\ res' = [res EXCEPT ![p] = [status |-> 500]]
    /\ pc' = [pc EXCEPT ![p] = "release"]
    /\ UNCHANGED <<products, storeVars, body, idx, fault, adjLog, call, envVars>>

\* ROLLBACK itself throws (the connection is gone, the server has dropped the
\* transaction): the catch block is left before res.status(500).
RollbackFail(p) ==
    /\ pc[p] = "rollback"
    /\ tx' = [tx EXCEPT ![p].open = FALSE, ![p].rollback_threw = TRUE]
    /\ pc' = [pc EXCEPT ![p] = "release"]
    /\ UNCHANGED <<products, storeVars, body, idx, res, fault, adjLog, call, envVars>>

\* finally: client.release().  The handler returns and its locals are gone;
\* the response stays with the caller.
Release(p) ==
    /\ pc[p] = "release"
    /\ pc' = [pc EXCEPT ![p] = "done"]
    /\ body' = [body EXCEPT ![p] = Missing]
    /\ idx' = [idx EXCEPT ![p] = 0]
    /\ tx' = [tx EXCEPT ![p] = NoTx]
    /\ fault' = [fault EXCEPT ![p] = NoFault]
    /\ adjLog' = [adjLog EXCEPT ![p] = <<>>]
    /\ prior' = [prior EXCEPT ![p] = {}]
    /\ checked_out' = checked_out - 1
    /\ UNCHANGED <<products, storeVars, res, call, now, client, bootVars, uiVars>>

\* POST /orders, one step of one request.
CreateOrder(p) ==
    \/ Connect(p)
    \/ ConnectFail(p)
    \/ Validate(p)
    \/ Begin(p)
    \/ QueryFail(p)
    \/ InsertOrder(p)
    \/ InsertItem(p)
    \/ AdjustReplied(p)
    \/ AdjustError(p)
    \/ AdjustHang(p)
    \/ Commit(p)
    \/ Rollback(p)
    \/ RollbackFail(p)
    \/ Release(p)

\* ----------------------------------------------------------------- reads
\* GET /orders/:id: the committed header joined with its committed items.
OrderRows(id) == { k \in 1..Len(orders) : orders[k].id = id }
ItemsOf(id) == SelectSeq(order_items, LAMBDA r : r.order_id = id)

\* Every order in which a SELECT without ORDER BY may return the rows.
AnyOrder(rows) ==
    { [k \in 1..Len(rows) |-> rows[f[k]]] : f \in Permutations(1..Len(rows)) }

\* GET /orders: the ids of the committed orders.
ListedIds == { orders[k].id : k \in 1..Len(orders) }

\* ORDER BY created_at with the order reversed: ascending.
NewerAscending(a, b) == a.created_at < b.created_at

\* ORDER BY created_at DESC: row a sorts before row b.
Newer(a, b) == a.created_at > b.created_at

\* GET /orders: every result the query may give, the committed orders sorted
\* by created_at DESC, rows of equal created_at in any order.
ListOrders ==
    { l \in AnyOrder(orders) :
        \A i, j \in 1..Len(l) : i < j => ~Newer(l[j], l[i]) }

\* The place of order id in the listing l.
Position(l, id) == CHOOSE k \in 1..Len(l) : l[k].id = id

\* ------------------------------------------------------ the other client
\* A path parameter :id as Postgres receives it: a text it casts to INTEGER.
\* int4 says whether the cast succeeds, value is the integer it yields.
\* OutOfRangeId is the text "3000000000", a number no INTEGER column holds.
IdParam(n) == [int4 |-> TRUE, value |-> n]
OutOfRangeId == [int4 |-> FALSE, value |-> 0]
OrderIdParams == { IdParam(n) : n \in 1..(NumReq + 1) } \cup {OutOfRangeId}
ProductIdParams == { IdParam(1), IdParam(NoSuchProduct), OutOfRangeId }

\* The statuses the client sends, and the number of characters of each.
LongStatus == "delivered_to_the_neighbour_and_awaiting_confirmation"
StatusInputs == {"pending", "shipped", LongStatus}
StatusLength(s) ==
    CASE s = "pending" -> 7
      [] s = "shipped" -> 7
      [] s = LongStatus -> 52

\* status VARCHAR(50): a longer value is an error of the UPDATE.
FitsStatusColumn(s) == StatusLength(s) <= VarcharLimit

\* GET /orders/:id, first query: the header. A failing query is answered 500,
\* no row 404.
GetOrderHeader ==
    /\ client.pc = "idle"
    /\ \E id \in OrderIdParams :
         client' =
           IF ~id.int4
           THEN [client EXCEPT !.op = "GetOrder", !.id = id, !.pc = "done", !.status = 500]
           ELSE IF OrderRows(id.value) = {}
           THEN [client EXCEPT !.op = "GetOrder", !.id = id, !.pc = "done", !.status = 404]
           ELSE [client EXCEPT !.op = "GetOrder", !.id = id, !.pc = "items",
                               !.order = orders[CHOOSE k \in OrderRows(id.value) : TRUE]]
    /\ UNCHANGED <<products, storeVars, pc, body, idx, tx, res, fault, adjLog, call,
                   checked_out, now, prior, bootVars, uiVars>>

\* GET /orders/:id, second query: the items, in the order the SELECT yields.
GetOrderItems ==
    /\ client.pc = "items"
    /\ \E rows \in AnyOrder(ItemsOf(client.id.value)) :
         client' = [client EXCEPT !.items = rows, !.status = 200, !.pc = "done"]
    /\ UNCHANGED <<products, storeVars, pc, body, idx, tx, res, fault, adjLog, call,
                   checked_out, now, prior, bootVars, uiVars>>


\* WithStatus as a rewrite of the table that keeps the addressed row only.
WithStatusOnly(n, s) ==
    SelectSeq([k \in 1..Len(orders) |-> [orders[k] EXCEPT !.status = s]],
              LAMBDA r : r.id = n)

\* WithStatus with the total recomputed from the catalog's current price.
WithStatusRepriced(n, s) ==
    [k \in 1..Len(orders) |->
        IF orders[k].id = n
        THEN [orders[k] EXCEPT !.status = s, !.total_amount = products[1].price]
        ELSE orders[k]]

\* The orders table after UPDATE orders SET status = s WHERE id = n.
WithStatus(n, s) ==
    [k \in 1..Len(orders) |-> IF orders[k].id = n THEN [orders[k] EXCEPT !.status = s]
                              ELSE orders[k]]


\* UpdateStatus with a transition check: only a pending order is updated,
\* any other is answered 400.
UpdateStatusFromPending ==
    /\ client.pc = "idle"
    /\ \E id \in OrderIdParams, s \in StatusInputs :
         IF ~id.int4 \/ ~FitsStatusColumn(s)
         THEN /\ client' = [client EXCEPT !.op = "UpdateStatus", !.id = id, !.arg = s,
                                          !.pc = "done", !.status = 500]
              /\ UNCHANGED orders
         ELSE IF OrderRows(id.value) = {}
         THEN /\ client' = [client EXCEPT !.op = "UpdateStatus", !.id = id, !.arg = s,
                                          !.pc = "done", !.status = 404]
              /\ UNCHANGED orders
         ELSE IF \E k \in OrderRows(id.value) : orders[k].status # "pending"
         THEN /\ client' = [client EXCEPT !.op = "UpdateStatus", !.id = id, !.arg = s,
                                          !.pc = "done", !.status = 400]
              /\ UNCHANGED orders
         ELSE /\ orders' = WithStatus(id.value, s)
              /\ client' = [client EXCEPT !.op = "UpdateStatus", !.id = id, !.arg = s,
                                          !.pc = "done", !.status = 200,
                                          !.order = orders'[CHOOSE k \in OrderRows(id.value) : TRUE]]
    /\ UNCHANGED <<products, order_items, order_seq, placed, pc, body, idx, tx, res, fault,
                   adjLog, call, checked_out, now, prior, bootVars, uiVars>>

\* PATCH /orders/:id/status {status}: one UPDATE .. RETURNING *.
UpdateStatus ==
    /\ client.pc = "idle"
    /\ \E id \in OrderIdParams, s \in StatusInputs :
         IF ~id.int4 \/ ~FitsStatusColumn(s)
         THEN /\ client' = [client EXCEPT !.op = "UpdateStatus", !.id = id, !.arg = s,
                                          !.pc = "done", !.status = 500]
              /\ UNCHANGED orders
         ELSE IF OrderRows(id.value) = {}
         THEN /\ client' = [client EXCEPT !.op = "UpdateStatus", !.id = id, !.arg = s,
                                          !.pc = "done", !.status = 404]
              /\ UNCHANGED orders
         ELSE /\ orders' = WithStatus(id.value, s)
              /\ client' = [client EXCEPT !.op = "UpdateStatus", !.id = id, !.arg = s,
                                          !.pc = "done", !.status = 200,
                                          !.order = orders'[CHOOSE k \in OrderRows(id.value) : TRUE]]
    /\ UNCHANGED <<products, order_items, order_seq, placed, pc, body, idx, tx, res, fault,
                   adjLog, call, checked_out, now, prior, bootVars, uiVars>>

\* GET /products/:id.
GetProduct ==
    /\ client.pc = "idle"
    /\ \E id \in ProductIdParams :
         client' =
           IF ~id.int4
           THEN [client EXCEPT !.op = "GetProduct", !.id = id, !.pc = "done", !.status = 500]
           ELSE IF id.value \notin DOMAIN products
           THEN [client EXCEPT !.op = "GetProduct", !.id = id, !.pc = "done", !.status = 404]
           ELSE [client EXCEPT !.op = "GetProduct", !.id = id, !.pc = "done", !.status = 200,
                               !.product = products[id.value]]
    /\ UNCHANGED <<products, storeVars, pc, body, idx, tx, res, fault, adjLog, call,
                   checked_out, now, prior, bootVars, uiVars>>


\* The bodies of POST /products: name, price in mills and stock, or no name.
ProductBodies ==
    { [has_name |-> TRUE, name |-> "Mouse", price |-> 25990, stock |-> 5],
      [has_name |-> FALSE, name |-> "", price |-> 25990, stock |-> 5] }

\* POST /products: one INSERT .. RETURNING *. The id comes from the sequence
\* also when the row is refused (name is NOT NULL) and the answer is 500.
CreateProduct ==
    /\ client.pc = "idle"
    /\ product_seq < SeedCount + MaxNewProducts
    /\ product_seq' = product_seq + 1
    /\ \E b \in ProductBodies :
         LET row == [name |-> b.name, price |-> ToDecimal2(b.price), stock |-> b.stock] IN
         IF b.has_name
         THEN /\ products' = products @@ (product_seq' :> row)
              /\ client' = [client EXCEPT !.op = "CreateProduct", !.id = IdParam(product_seq'),
                                          !.pc = "done", !.status = 201, !.product = row]
         ELSE /\ products' = products
              /\ client' = [client EXCEPT !.op = "CreateProduct", !.pc = "done", !.status = 500]
    /\ UNCHANGED <<storeVars, pc, body, idx, tx, res, fault, adjLog, call,
                   checked_out, now, prior, schema, replica, uiVars>>

\* The client has its response and is free to send its next request.
NextRequest ==
    /\ client.pc = "done"
    /\ client' = NoClient
    /\ UNCHANGED <<products, storeVars, pc, body, idx, tx, res, fault, adjLog, call,
                   checked_out, now, prior, bootVars, uiVars>>

ClientRequest == GetOrderHeader \/ GetOrderItems \/ UpdateStatus \/ GetProduct \/ NextRequest

\* POST /orders when no query fails and every stock PATCH is answered.
CreateOrderAnswered(p) ==
    \/ Connect(p)
    \/ Validate(p)
    \/ Begin(p)
    \/ InsertOrder(p)
    \/ InsertItem(p)
    \/ AdjustReplied(p)
    \/ Commit(p)
    \/ Release(p)

\* POST /orders when a query may fail and the ROLLBACK that follows works.
CreateOrderOrRollback(p) == CreateOrderAnswered(p) \/ QueryFail(p) \/ Rollback(p)

\* ---------------------------------------------------------------- browser
\* The page after fetchData: the loading screen is gone, every shown product
\* has an Add to Cart button, and the Place Order button calls placeOrder of
\* the latest render.  The tabs are not modelled: the user may switch tab
\* at any time, also while a request is in flight.

\* The product the page shows under this id, as GET /products returned it.
ShownProduct(id) == [id |-> id, name |-> products[id].name, price |-> products[id].price]

\* cart.find(item => item.id === product.id)
InCart(cart, id) == \E k \in 1..Len(cart) : cart[k].id = id

\* The total of the quantities in the cart.
RECURSIVE CartSize(_)
CartSize(cart) ==
    IF cart = <<>> THEN 0 ELSE Head(cart).quantity + CartSize(Tail(cart))

\* CartWith that never looks for an existing entry.
CartWithAlwaysAppends(cart, product) ==
    Append(cart, [id |-> product.id, name |-> product.name, price |-> product.price,
                  quantity |-> 1])

\* The value addToCart passes to setCart: the entry of the product with its
\* quantity raised by one, or a new entry of quantity 1 at the end.
CartWith(cart, product) ==
    IF InCart(cart, product.id)
    THEN [k \in 1..Len(cart) |->
            IF cart[k].id = product.id
            THEN [cart[k] EXCEPT !.quantity = cart[k].quantity + 1]
            ELSE cart[k]]
    ELSE Append(cart, [id |-> product.id, name |-> product.name, price |-> product.price,
                       quantity |-> 1])

\* A click on Add to Cart: addToCart(product).
AddToCart(id) ==
    /\ CartSize(ui.cart) < MaxAdds
    /\ ui' = [ui EXCEPT !.cart = CartWith(ui.cart, ShownProduct(id))]
    /\ added' = [added EXCEPT ![id] = added[id] + 1]
    /\ UNCHANGED <<products, storeVars, pc, body, idx, tx, res, fault, adjLog, call,
                   checked_out, now, prior, client, bootVars, placing>>

\* The items placeOrder puts in the body of POST /orders.
OrderBody(cart) ==
    [k \in 1..Len(cart) |->
        [product_id |-> cart[k].id, quantity |-> cart[k].quantity, price |-> cart[k].price]]

\* The calls of placeOrder are numbered in the order they are made.
NextPlace(c) == placing[c].pc = "idle" /\ \A d \in Places : d < c => placing[d].pc # "idle"

\* placeOrder with an empty cart returns at once.  The page renders the
\* Place Order button only for a non-empty cart; this is the function's own
\* test.
PlaceOrderEmpty(c) ==
    /\ NextPlace(c)
    /\ Len(ui.cart) = 0
    /\ placing' = [placing EXCEPT ![c] = [@ EXCEPT !.pc = "done", !.outcome = "returned"]]
    /\ UNCHANGED <<products, storeVars, pc, body, idx, tx, res, fault, adjLog, call,
                   checked_out, now, prior, client, bootVars, ui, added>>

\* placeOrder with a cart: fetch sends POST /orders with the cart of the
\* render the click happened in, and the call waits for the response.  The
\* closure keeps the orders of that render.
PlaceOrderSend(c) ==
    /\ NextPlace(c)
    /\ Len(ui.cart) # 0
    /\ placing' = [placing EXCEPT ![c] =
                      [@ EXCEPT !.pc = "sent", !.posts = @ + 1,
                                !.body = OrderBody(ui.cart), !.orders = ui.orders]]
    /\ UNCHANGED <<products, storeVars, pc, body, idx, tx, res, fault, adjLog, call,
                   checked_out, now, prior, client, bootVars, ui, added>>

\* The ids of the orders the responses so far have carried.
ReturnedIds == {placing[d].order.id : d \in {e \in Places : placing[e].outcome = "ok"}}

\* The rows the orders service may answer 201 with: a pending order of a
\* new id for these items, in cents.  Its time is left out.
NewOrders(items) ==
    {[id |-> i, total_amount |-> Total(items), status |-> "pending", created_at |-> 0] :
        i \in (1..NumPlace) \ ReturnedIds}

\* The state after the response was ok and its body parsed.
Placed(u, list, newOrder) == [u EXCEPT !.orders = Append(list, newOrder), !.cart = <<>>]

\* res.ok: the order of the response goes after the orders of the closure,
\* and the cart is emptied.
PlaceOrderOk(c) ==
    /\ placing[c].pc = "sent"
    /\ \E newOrder \in NewOrders(placing[c].body) :
        /\ ui' = Placed(ui, placing[c].orders, newOrder)
        /\ placing' = [placing EXCEPT ![c] =
                          [@ EXCEPT !.pc = "done", !.outcome = "ok", !.order = newOrder]]
    /\ added' = [i \in ShownProducts |-> 0]
    /\ UNCHANGED <<products, storeVars, pc, body, idx, tx, res, fault, adjLog, call,
                   checked_out, now, prior, client, bootVars>>

\* The ways the request fails: a response that is not ok, or no response.
Failures == {"not_ok", "rejected"}

\* err.message of each.
Message(failure) == IF failure = "not_ok" THEN "Failed to place order" ELSE "Failed to fetch"

\* Caught that also empties the cart.
CaughtClearsCart(u, failure) == [u EXCEPT !.error = Message(failure), !.cart = <<>>]

\* The state after the catch block.
Caught(u, failure) == [u EXCEPT !.error = Message(failure)]

\* The response is not ok, or fetch rejects: the catch block records the
\* message.
PlaceOrderFail(c) ==
    /\ placing[c].pc = "sent"
    /\ \E failure \in Failures :
        /\ ui' = Caught(ui, failure)
        /\ placing' = [placing EXCEPT ![c] = [@ EXCEPT !.pc = "done", !.outcome = failure]]
    /\ UNCHANGED <<products, storeVars, pc, body, idx, tx, res, fault, adjLog, call,
                   checked_out, now, prior, client, bootVars, added>>

\* placeOrder, one call of it.
PlaceOrder(c) ==
    \/ PlaceOrderEmpty(c)
    \/ PlaceOrderSend(c)
    \/ PlaceOrderOk(c)
    \/ PlaceOrderFail(c)

\* --------------------------------------------------------- specifications
Next == \E p \in Reqs : CreateOrder(p)

Spec == Init /\ [][Next]_vars

NextStock == \E c \in Calls : SendCall(c) \/ ApplyCall(c)

\* The orders service serving POST /orders and the other client's requests.
NextClient == (\E p \in Reqs : CreateOrderAnswered(p)) \/ ClientRequest
SpecClient == Init /\ [][NextClient]_vars

\* The replicas of the products service starting on an empty database.
NextBoot == \E r \in Replicas : InitDB(r)
SpecBoot == InitBoot /\ [][NextBoot]_vars

\* POST /orders, with failing queries, next to status updates.
NextOrders ==
    \/ \E p \in Reqs : CreateOrderOrRollback(p)
    \/ UpdateStatus
    \/ NextRequest
SpecOrders == Init /\ [][NextOrders]_vars

\* POST /orders next to status updates and new products.
NextFrame ==
    \/ \E p \in Reqs : CreateOrderAnswered(p)
    \/ UpdateStatus
    \/ CreateProduct
    \/ NextRequest
SpecFrame == Init /\ [][NextFrame]_vars

SpecStock == Init /\ [][NextStock]_vars

\* The browser: clicks on Add to Cart and on Place Order.
NextCart ==
    \/ \E id \in ShownProducts : AddToCart(id)
    \/ \E c \in Places : PlaceOrder(c)
SpecCart == Init /\ [][NextCart]_vars

\* ---------------------------------------------------------------- claims
\* The order_items rows a committed order with this id and these submitted
\* items is to show, in the order submitted.
ExpectedRows(id, items) ==
    [k \in 1..Len(items) |->
        [order_id |-> id,
         product_id |-> items[k].product_id,
         quantity |-> items[k].quantity,
         price |-> ToDecimal2(items[k].price)]]

\* A request whose handler has left try/catch and not yet returned.
Finished(p) == pc[p] = "release"

\* A valid item sequence: positive quantities, prices that are non-negative
\* and have two decimals.
ValidItems(items) ==
    \A k \in 1..Len(items) :
        items[k].quantity > 0 /\ items[k].price >= 0 /\ items[k].price % 10 = 0

\* C1: if an INSERT (header or item) fails, the transaction is rolled back and
\* the call answers 500; neither the header nor any item of that attempt is
\* visible to readers, whichever insert failed (stated for valid requests).
C1_InsertFailureRollsBackWith500 ==
    \A p \in Reqs :
        (fault[p] \in {"insert_order", "insert_item"} /\ ValidItems(Items(p))) =>
            /\ OrderRows(tx[p].order.id) = {}
            /\ ItemsOf(tx[p].order.id) = <<>>
            /\ Finished(p) => res[p].status = 500

\* C2: readers never see an item without its order, and every order they see
\* has exactly the item sequence it was submitted with.
C2_NoPartialOrderVisible ==
    /\ \A k \in 1..Len(order_items) : OrderRows(order_items[k].order_id) # {}
    /\ \A k \in 1..Len(orders) :
          /\ orders[k].id \in DOMAIN placed
          /\ ItemsOf(orders[k].id) = ExpectedRows(orders[k].id, placed[orders[k].id])

\* C2 witness: a two-item order is visible while another request's
\* transaction holds an item of its own that readers do not see.
C2_Witness ==
    \E p \in Reqs, q \in Reqs :
        /\ p # q
        /\ Finished(p) /\ res[p].status = 201
        /\ Len(ItemsOf(res[p].order.id)) = 2
        /\ tx[q].open /\ Len(tx[q].items) = 1 /\ Len(Items(q)) = 2

\* C3: a stock PATCH is issued only once the order's transaction is
\* committed, never while it is open (stated for valid requests).
C3_AdjustOnlyAfterCommit ==
    \A p \in Reqs :
        ValidItems(Items(p)) =>
            \A k \in 1..Len(adjLog[p]) :
                ~adjLog[p][k].in_tx /\ tx[p].order.id \in ListedIds

\* C4: whichever stock PATCH calls fail, a request whose store operations all
\* succeed commits its order, answers 201 with it, and has attempted the
\* PATCH of every item, in order.
C4_AdjustFailuresDoNotFailOrder ==
    \A p \in Reqs :
        (Finished(p) /\ fault[p] = NoFault /\ ~IsEmptyRequest(body[p])) =>
            /\ res[p].status = 201
            /\ OrderRows(res[p].order.id) # {}
            /\ ItemsOf(res[p].order.id) = ExpectedRows(res[p].order.id, Items(p))
            /\ Len(adjLog[p]) = Len(Items(p))
            /\ \A k \in 1..Len(adjLog[p]) :
                  /\ adjLog[p][k].product_id = Items(p)[k].product_id
                  /\ adjLog[p][k].quantity = Items(p)[k].quantity

\* C4 witness: the first PATCH threw, the second was still made and answered
\* 404, and the order is committed and answered with 201.
C4_Witness ==
    \E p \in Reqs :
        /\ Finished(p) /\ res[p].status = 201
        /\ Len(adjLog[p]) = 2
        /\ adjLog[p][1].outcome = "error"
        /\ adjLog[p][2].outcome = "not_found"
        /\ OrderRows(res[p].order.id) # {}

\* The sum of the quantities of the direct calls 1..n the products service
\* has answered 200 for product id.
RECURSIVE AppliedQuantity(_, _)
AppliedQuantity(id, n) ==
    IF n = 0 THEN 0
    ELSE AppliedQuantity(id, n - 1)
         + (IF call[n].state = "done" /\ call[n].id = id /\ call[n].status = 200
            THEN call[n].quantity ELSE 0)

\* C5: concurrent stock PATCH calls lose no update: the stock is the seeded
\* stock less the quantities of the calls applied (N calls of 1: initial - N).
C5_NoLostUpdate ==
    products[1].stock = LaptopStock - AppliedQuantity(1, NumCalls)

\* C5 witness: every call decremented product 1 by 1, all were in flight and
\* all are answered; the stock is initial - N.
C5_Witness ==
    /\ \A c \in Calls : /\ call[c].state = "done" /\ call[c].id = 1
                       /\ call[c].quantity = 1 /\ call[c].status = 200
    /\ products[1].stock = LaptopStock - NumCalls

C7_EmptyRequestRejected ==
    \A p \in Reqs :
        (pc[p] \notin {"idle", "done"} /\ (body[p] = Missing \/ body[p].items = <<>>)) =>
            /\ pc[p] \in {"validate", "release"}
            /\ Finished(p) => res[p].status = 400
            /\ tx[p] = NoTx
            /\ adjLog[p] = <<>>
            /\ fault[p] = NoFault

\* C7 witness: a request with items = [] has been answered 400 while the
\* store holds an order (the one another request committed) and no more.
C7_Witness ==
    \E p \in Reqs :
        /\ Finished(p) /\ res[p].status = 400
        /\ body[p] = [has_items |-> TRUE, items |-> <<>>]
        /\ Len(orders) = 1 /\ order_seq = 1

\* An entry the validation is to refuse.
InvalidEntry(item) == item.quantity <= 0 \/ item.price < 0

\* C8: a request with an entry of quantity <= 0 or price < 0 is answered 400
\* and creates no order, so every stored item has a positive quantity and a
\* non-negative price.
C8_InvalidEntriesRejected ==
    /\ \A p \in Reqs :
          (/\ Finished(p) /\ fault[p] = NoFault
           /\ \E k \in 1..Len(Items(p)) : InvalidEntry(Items(p)[k])) =>
              res[p].status = 400 /\ tx[p].order.id \notin ListedIds
    /\ \A k \in 1..Len(order_items) : ~InvalidEntry(order_items[k])

\* C9: no step of CreateOrder or of the stock endpoint increases the stock of
\* a product.
C9_StockNeverIncreases ==
    [][\A i \in DOMAIN products : products'[i].stock <= products[i].stock]_vars

\* C10: a stock PATCH that is never answered does not keep CreateOrder from
\* completing: a handler that has not returned can always take a step
\* (stated for valid requests).
C10_HungAdjustDoesNotBlock ==
    \A p \in Reqs :
        (pc[p] \notin {"idle", "done"} /\ ValidItems(Items(p))) => ENABLED CreateOrder(p)

\* The requests that hold a pooled client: from pool.connect() to
\* client.release().
Holding == { p \in Reqs : pc[p] \notin {"idle", "done"} }

\* C11: every POST /orders that acquired a pooled client releases it exactly
\* once on every exit path, and the transaction it began has been ended by a
\* COMMIT or a ROLLBACK that succeeded when the client is released.
C11_ReleasedOnceWithTxEnded ==
    /\ checked_out = Cardinality(Holding)
    /\ \A p \in Reqs :
          (Finished(p) /\ ValidItems(Items(p)) /\ tx[p].begun)
              => tx[p].ended_by \in {"COMMIT", "ROLLBACK"}

\* C12: every POST /orders that has ended was answered, and one that met a
\* store error was answered 500.
C12_AlwaysAnswered ==
    \A p \in Reqs :
        /\ pc[p] = "done" => res[p] # NoResponse
        /\ (Finished(p) /\ fault[p] # NoFault) => res[p].status = 500

\* What the Order Store behaved like towards request p: the query that
\* failed, and whether a ROLLBACK threw.
StoreBehaviour(p) == <<fault[p], tx[p].rollback_threw>>

\* What request p has left in the Order Store, whatever id it was given.
StoredBy(p) ==
    LET id == tx[p].order.id IN
    IF id \in ListedIds
    THEN [stored |-> TRUE,
          order |-> { [total_amount |-> orders[k].total_amount, status |-> orders[k].status] :
                        k \in OrderRows(id) },
          items |-> [k \in 1..Len(ItemsOf(id)) |->
                        [product_id |-> ItemsOf(id)[k].product_id,
                         quantity |-> ItemsOf(id)[k].quantity,
                         price |-> ItemsOf(id)[k].price]]]
    ELSE [stored |-> FALSE, order |-> {}, items |-> <<>>]

\* What request p was answered, whatever id its order was given.
Answer(p) ==
    IF res[p].status = 201
    THEN <<201, res[p].order.total_amount, res[p].order.status>>
    ELSE <<res[p].status>>

\* C13: two executions of POST /orders with the same request and the same
\* Order Store behaviour are answered alike and leave the same rows stored,
\* whichever of their stock PATCH calls succeeded and whichever failed.
C13_AdjustOutcomesDoNotShow ==
    \A p, q \in Reqs :
        (/\ Finished(p) /\ Finished(q)
         /\ body[p] = body[q]
         /\ StoreBehaviour(p) = StoreBehaviour(q))
        => (Answer(p) = Answer(q) /\ StoredBy(p) = StoredBy(q))

\* C13 witness: the same request twice, both committed and answered 201; the
\* PATCH of one threw and the PATCH of the other was answered.
C13_Witness ==
    \E p, q \in Reqs :
        /\ Finished(p) /\ Finished(q) /\ body[p] = body[q]
        /\ res[p].status = 201 /\ res[q].status = 201
        /\ Len(adjLog[p]) >= 1 /\ Len(adjLog[q]) >= 1
        /\ adjLog[p][1].outcome = "error"
        /\ adjLog[q][1].outcome # "error"

\* C14: an order answered with 201 is committed: from the response on, the
\* order is in the orders table with the response's total and with exactly the
\* submitted items, so every later GET /orders/:id and GET /orders finds it.
C14_Created201IsCommitted ==
    \A p \in Reqs :
        res[p].status = 201 =>
            /\ res[p].order.id \in ListedIds
            /\ \A k \in OrderRows(res[p].order.id) :
                  orders[k].total_amount = res[p].order.total_amount
            /\ res[p].order.id \in DOMAIN placed
            /\ ItemsOf(res[p].order.id) = ExpectedRows(res[p].order.id, placed[res[p].order.id])

\* C14 witness: a request answered 201 has returned, and a later request has
\* committed another order after it.
C14_Witness ==
    \E p, q \in Reqs :
        /\ pc[p] = "done" /\ res[p].status = 201
        /\ res[q].status = 201
        /\ res[p].order.id \in prior[q]
        /\ Len(ItemsOf(res[p].order.id)) = 2

\* C15: POST /orders issues its stock PATCH calls one at a time in the order
\* of the submitted items: the k-th call carries the k-th entry's product id
\* and quantity (two entries of one product get a call each), a call is made
\* only when the one before has been answered or has thrown, no call is made
\* twice, and a request answered 201 has made exactly one call per entry.
C15_OneAdjustPerItemInOrder ==
    \A p \in Reqs :
        /\ Len(adjLog[p]) <= Len(Items(p))
        /\ \A k \in 1..Len(adjLog[p]) :
              /\ adjLog[p][k].product_id = Items(p)[k].product_id
              /\ adjLog[p][k].quantity = Items(p)[k].quantity
        /\ pc[p] = "adjust" => Len(adjLog[p]) = idx[p] - 1
        /\ pc[p] = "insert_item" => Len(adjLog[p]) = idx[p] - 1
        /\ (Finished(p) /\ res[p].status = 201) => Len(adjLog[p]) = Len(Items(p))

\* C15 witness: a request naming the same product in both entries is answered
\* 201 after two calls for that product, the first of which threw.
C15_Witness ==
    \E p \in Reqs :
        /\ Finished(p) /\ res[p].status = 201
        /\ Len(Items(p)) = 2
        /\ Items(p)[1].product_id = Items(p)[2].product_id
        /\ Len(adjLog[p]) = 2
        /\ adjLog[p][1].outcome = "error"
        /\ adjLog[p][2].outcome = "ok"

\* C16: GET /orders/:id of a committed order returns its items in the order
\* they were submitted.
C16_ItemsInSubmittedOrder ==
    (/\ client.op = "GetOrder" /\ client.pc = "done" /\ client.status = 200
     /\ ValidItems(placed[client.id.value]))
        => client.items = ExpectedRows(client.id.value, placed[client.id.value])

\* The step is the client's PATCH /orders/:id/status for an order that exists.
UpdatesExisting ==
    /\ client.pc = "idle" /\ client'.op = "UpdateStatus"
    /\ client'.id.int4 /\ OrderRows(client'.id.value) # {}

\* The step answers it 200 with the order carrying the status sent, and that
\* status is the one stored.
UpdateTookEffect ==
    /\ client'.status = 200
    /\ client'.order.id = client'.id.value
    /\ client'.order.status = client'.arg
    /\ \A k \in OrderRows(client'.id.value) : orders'[k].status = client'.arg

RequestsAbsentId ==
    /\ client.pc = "idle" /\ client'.pc # "idle"
    /\ \/ /\ client'.op \in {"GetOrder", "UpdateStatus"}
          /\ ~client'.id.int4 \/ OrderRows(client'.id.value) = {}
          /\ client'.op = "UpdateStatus" => FitsStatusColumn(client'.arg)
       \/ /\ client'.op = "GetProduct"
          /\ ~client'.id.int4 \/ client'.id.value \notin DOMAIN products

\* C18: GET /orders/:id, PATCH /orders/:id/status and GET /products/:id with an
\* id that does not exist are answered 404 and change neither store.
C18_AbsentIdIs404 ==
    [][RequestsAbsentId =>
          (client'.status = 404 /\ UNCHANGED <<products, orders, order_items>>)]_vars

\* C19: GET /orders returns the committed orders and no other, and an order
\* created by a POST /orders that arrived after the POST of another order had
\* returned comes before that order.
C19_ListOrdersNewestFirst ==
    \A l \in ListOrders :
        /\ Len(l) = Len(orders)
        /\ { l[k].id : k \in 1..Len(l) } = DOMAIN placed
        /\ \A p \in Reqs : tx[p].open => \A k \in 1..Len(l) : l[k].id # tx[p].order.id
        /\ \A q \in Reqs :
              (Finished(q) /\ res[q].status = 201) =>
                  \A a \in prior[q] : Position(l, res[q].order.id) < Position(l, a)

\* C19 witness: an order was created and answered, a POST that arrived
\* afterwards has committed a second order, and both are listed.
C19_Witness ==
    \E q \in Reqs :
        /\ Finished(q) /\ res[q].status = 201
        /\ prior[q] # {}
        /\ Len(orders) = 2

\* C20: PATCH /products/:id/stock {quantity: q} on an existing product sets
\* its stock to exactly the previous stock less q with no floor and returns
\* the product with the new stock; no other product changes.
C20_StockDecrementedUnconditionally ==
    [][\A c \in Calls :
         (call[c].state = "sent" /\ call'[c].state = "done" /\ call[c].id \in DOMAIN products)
         => /\ products'[call[c].id].stock = products[call[c].id].stock - call[c].quantity
            /\ call'[c].status = 200
            /\ call'[c].stock = products'[call[c].id].stock
            /\ \A i \in DOMAIN products :
                  i # call[c].id => products'[i] = products[i]]_vars

\* C20 witness: a call for more than the stock left was answered 200 with a
\* negative stock, and the stored stock is negative.
C20_Witness ==
    \E c \in Calls :
        /\ call[c].state = "done" /\ call[c].status = 200
        /\ call[c].quantity > LaptopStock
        /\ call[c].stock < 0
        /\ products[call[c].id].stock < 0

\* C25: initDB is idempotent: a replica that runs it on a catalog that has
\* rows creates no table anew, inserts nothing and ends, and a catalog with
\* rows never becomes empty; the seed is inserted only by a replica whose
\* count found no row.
C25_InitDBIdempotent ==
    [][/\ \A r \in Replicas :
            (/\ replica'[r] # replica[r]
             /\ replica[r].pc \in {"create_table", "count"}
             /\ DOMAIN products # {})
            => /\ products' = products /\ product_seq' = product_seq /\ schema' = schema
               /\ replica'[r].pc \in {"count", "done"}
       /\ DOMAIN products # {} => DOMAIN products' # {}
       /\ products' # products =>
            \E r \in Replicas : replica[r].pc = "seed" /\ replica[r].count = 0]_vars

\* C25 witness: a replica has run initDB on the seeded catalog, counted its
\* six rows and ended, and the catalog is the seed set as inserted.
C25_Witness ==
    /\ products = SeedProducts
    /\ \E r \in Replicas : replica[r].pc = "done" /\ replica[r].count = SeedCount

\* C30: replicas that run initDB concurrently on an empty catalog insert the
\* seed set once: each seed product is in the catalog at most once.
C30_SeededOnce ==
    /\ Cardinality(DOMAIN products) <= SeedCount
    /\ \A i, j \in DOMAIN products : products[i].name = products[j].name => i = j

\* C21: a committed order's total_amount and its items' product id, quantity
\* and price never change: no step (a status update, a stock PATCH, a new
\* product, a later POST /orders) alters a row already in orders or
\* order_items, but for the status a status update sets.
C21_CommittedOrderImmutable ==
    [][/\ Len(orders') >= Len(orders)
       /\ \A k \in 1..Len(orders) :
             /\ orders'[k].id = orders[k].id
             /\ orders'[k].total_amount = orders[k].total_amount
             /\ orders'[k].created_at = orders[k].created_at
       /\ Len(order_items') >= Len(order_items)
       /\ \A k \in 1..Len(order_items) : order_items'[k] = order_items[k]]_vars

\* C21 witness: an order was committed, then set to shipped, a product was
\* created and the stock of product 1 was decremented for a second order, and
\* the first order still has its total and its items.
C21_Witness ==
    /\ Len(orders) = 2
    /\ orders[1].status = "shipped" /\ orders[1].total_amount = 259998
    /\ Len(ItemsOf(orders[1].id)) = 1
    /\ NoSuchProduct \in DOMAIN products
    /\ products[1].stock = LaptopStock - 4

\* C23: orders are never deleted: the committed order ids only grow, over
\* POST /orders that fail and over status updates too.
C23_OrdersNeverDeleted ==
    [][ListedIds \subseteq ListedIds' /\ Len(orders') >= Len(orders)]_vars

\* C23 witness: an order is visible after a POST /orders was rolled back and
\* answered 500 and a status update was answered.
C23_Witness ==
    /\ Len(orders) = 1
    /\ \E p \in Reqs : Finished(p) /\ res[p].status = 500
    /\ client.op = "UpdateStatus" /\ client.status = 200

\* C22: a stock PATCH changes nothing but the stock of the product it
\* addresses: every other product, that product's other fields, the orders,
\* the order items and the transactions in flight stay as they are.
C22_AdjustStockFrame ==
    [][products' # products =>
          /\ orders' = orders /\ order_items' = order_items /\ tx' = tx
          /\ order_seq' = order_seq
          /\ DOMAIN products' = DOMAIN products
          /\ \E id \in DOMAIN products :
                /\ \A i \in DOMAIN products : i # id => products'[i] = products[i]
                /\ products'[id] = [products[id] EXCEPT !.stock = products'[id].stock]]_vars

\* C22 witness: the stock of product 1 was decremented while an order is
\* committed and a transaction is open, and product 2 is as seeded.
C22_Witness ==
    /\ products[1].stock < LaptopStock
    /\ products[1].price = LaptopPrice
    /\ products[2] = SeedProducts[2]
    /\ Len(orders) >= 1
    /\ \E p \in Reqs : tx[p].open /\ Len(adjLog[p]) >= 1 /\ adjLog[p][1].outcome = "ok"

\* C24: an order is pending when it becomes visible and stays pending until
\* a status update addresses its id.
C24_PendingUntilUpdated ==
    [][\A k \in 1..Len(orders') :
          /\ k > Len(orders) => orders'[k].status = "pending"
          /\ (k <= Len(orders) /\ orders'[k].status # orders[k].status)
                => (UpdatesExisting /\ client'.id.value = orders[k].id)]_vars

\* C24 witness: the first order was set to shipped, and the second, committed
\* by another request, is pending.
C24_Witness ==
    /\ Len(orders) = 2
    /\ orders[1].status = "shipped"
    /\ orders[2].status = "pending"
    /\ \E p \in Reqs : Finished(p) /\ res[p].status = 201 /\ res[p].order.id = orders[2].id

\* C26: a POST /orders answered 400 or 500 has decremented no stock.
C26_FailedOrderLeavesStock ==
    \A p \in Reqs :
        (Finished(p) /\ ValidItems(Items(p)) /\ res[p].status \in {400, 500})
            => \A k \in 1..Len(adjLog[p]) : adjLog[p][k].outcome # "ok"

\* The quantity of product id in the first n committed order items.
RECURSIVE OrderedQuantity(_, _)
OrderedQuantity(id, n) ==
    IF n = 0 THEN 0
    ELSE OrderedQuantity(id, n - 1)
         + (IF order_items[n].product_id = id THEN order_items[n].quantity ELSE 0)

\* C27: when no query and no stock PATCH fails, then once every POST /orders
\* has returned, each product's stock is its seeded stock less the quantities
\* of the committed order items that name it.
C27_StockAccounting ==
    (\A p \in Reqs : pc[p] = "done") =>
        \A i \in DOMAIN products :
            products[i].stock = SeedProducts[i].stock - OrderedQuantity(i, Len(order_items))

\* C27 witness: two orders of two items each, all four for product 1, are
\* committed, both requests have returned, and its stock is eight less.
C27_Witness ==
    /\ \A p \in Reqs : pc[p] = "done" /\ res[p].status = 201
    /\ Len(order_items) = 4
    /\ \A k \in 1..Len(order_items) : order_items[k].product_id = 1
    /\ products[1].stock = LaptopStock - 8

\* C28: a GET /orders/:id that found the header returns all the items of the
\* order, whatever POST /orders ran between and beside its two queries.
C28_GetOrderItemsComplete ==
    (client.op = "GetOrder" /\ client.pc = "done" /\ client.status = 200)
        => /\ client.order.id = client.id.value
           /\ Len(client.items) = Len(placed[client.id.value])
           /\ client.items \in AnyOrder(ExpectedRows(client.id.value, placed[client.id.value]))

\* C28 witness: the two items of an order were returned while another POST
\* /orders had its transaction open with an item inserted.
C28_Witness ==
    /\ client.op = "GetOrder" /\ client.pc = "done" /\ client.status = 200
    /\ Len(client.items) = 2
    /\ \E p \in Reqs : tx[p].open /\ Len(tx[p].items) >= 1

\* C29: concurrent POST /orders do not interfere: no two orders, committed or
\* in a transaction, have the same id, and the items stored under an order id
\* are exactly those of the request that created it.
C29_NoInterference ==
    /\ \A i, j \in 1..Len(orders) : orders[i].id = orders[j].id => i = j
    /\ \A p, q \in Reqs :
          (p # q /\ tx[p].order.id # 0) => tx[p].order.id # tx[q].order.id
    /\ \A p \in Reqs : tx[p].open => tx[p].order.id \notin ListedIds
    /\ \A p \in Reqs :
          (Finished(p) /\ res[p].status = 201) =>
              /\ ItemsOf(res[p].order.id) = ExpectedRows(res[p].order.id, Items(p))
              /\ \A k \in 1..Len(order_items) :
                    order_items[k].order_id = res[p].order.id
                        => \E n \in 1..Len(Items(p)) :
                              order_items[k].product_id = Items(p)[n].product_id

\* C29 witness: two requests with different items ran side by side and both
\* are committed and answered 201.
C29_Witness ==
    \E p, q \in Reqs :
        /\ Finished(p) /\ Finished(q)
        /\ res[p].status = 201 /\ res[q].status = 201
        /\ Len(Items(p)) = 2 /\ Len(Items(q)) = 1
        /\ Items(p)[1].product_id # Items(q)[1].product_id
        /\ res[p].order.id # res[q].order.id

\* The cart has one entry per product added since it was last emptied, and
\* the entry's quantity is the number of those additions.
CartCountsAdditions ==
    /\ \A j, k \in 1..Len(ui.cart) : ui.cart[j].id = ui.cart[k].id => j = k
    /\ \A k \in 1..Len(ui.cart) :
        /\ ui.cart[k].quantity >= 1
        /\ ui.cart[k].quantity = added[ui.cart[k].id]
    /\ \A i \in ShownProducts : added[i] > 0 => InCart(ui.cart, i)

\* The items of a submitted order have distinct product ids and positive
\* quantities.
DistinctAndPositive(items) ==
    /\ \A j, k \in 1..Len(items) : items[j].product_id = items[k].product_id => j = k
    /\ \A k \in 1..Len(items) : items[k].quantity >= 1

\* C31: after any sequence of addToCart calls the cart holds at most one
\* entry per product id, every entry's quantity is at least 1 and equals the
\* number of times the product was added since the cart was last emptied,
\* and every order the browser has submitted has distinct product ids and
\* positive quantities.
C31_CartOneEntryPerProduct ==
    /\ CartCountsAdditions
    /\ \A c \in Places : placing[c].posts > 0 => DistinctAndPositive(placing[c].body)

\* After an order was placed and the cart emptied, one product was added
\* twice and another once, and a second order with them is on its way.
C31_Witness ==
    /\ Len(ui.orders) = 1
    /\ Len(ui.cart) = 2
    /\ ui.cart[1].quantity = 2
    /\ ui.cart[2].quantity = 1
    /\ \E c \in Places : placing[c].pc = "sent" /\ placing[c].body = OrderBody(ui.cart)

\* This step is the return of call c at the test of the empty cart.
ReturnsEmpty(c) == placing[c].pc = "idle" /\ placing'[c].outcome = "returned"

\* This step is the fetch of call c.
Sends(c) == placing[c].pc = "idle" /\ placing'[c].pc = "sent"

\* This step ends call c with a response that was ok.
Succeeds(c) == placing[c].pc = "sent" /\ placing'[c].outcome = "ok"

\* This step ends call c in the catch block.
Fails(c) == placing[c].pc = "sent" /\ placing'[c].outcome \in Failures

\* C32: placeOrder with an empty cart sends no request and changes nothing;
\* with a non-empty cart it sends exactly one POST /orders; the cart is
\* emptied and the order list changed only by a call whose request
\* succeeded, which empties the cart and puts the returned order in the
\* list; a failed request leaves the cart and the order list as they are
\* and records an error.
C32_PlaceOrderOutcomes ==
    [][/\ \A c \in Places :
            /\ ReturnsEmpty(c) <=> (placing[c].pc = "idle" /\ placing'[c].pc # "idle"
                                     /\ Len(ui.cart) = 0)
            /\ ReturnsEmpty(c) => ui' = ui /\ placing'[c].posts = 0
            /\ Sends(c) => /\ placing'[c].posts = 1
                            /\ placing'[c].body = OrderBody(ui.cart)
                            /\ ui' = ui
            /\ placing[c].pc = "sent" => placing'[c].posts = 1
            /\ placing[c].pc = "done" => placing'[c] = placing[c]
            /\ Succeeds(c) => /\ ui'.cart = <<>>
                               /\ Len(ui'.orders) > 0
                               /\ ui'.orders[Len(ui'.orders)] = placing'[c].order
            /\ Fails(c) => /\ ui'.cart = ui.cart
                            /\ ui'.orders = ui.orders
                            /\ ui'.error # NoError
       /\ (ui.cart # <<>> /\ ui'.cart = <<>>) => \E c \in Places : Succeeds(c)
       /\ ui'.orders # ui.orders => \E c \in Places : Succeeds(c)]_vars

\* One call returned on an empty cart, one failed and left its cart and an
\* error, and one succeeded: its order is listed and the cart is empty.
C32_Witness ==
    /\ \E c \in Places : placing[c].outcome = "returned"
    /\ \E c \in Places : placing[c].outcome \in Failures /\ placing[c].posts = 1
    /\ \E c \in Places :
        /\ placing[c].outcome = "ok"
        /\ placing[c].posts = 1
        /\ ui.orders = <<placing[c].order>>
    /\ ui.cart = <<>>
    /\ ui.error # NoError
====
